---- MODULE Spec2Model ----
(***************************************************************************)
(* Model of the osuVNFC Discord bot (src/main.py): the verify, invite and  *)
(* register command handlers running as cooperatively scheduled coroutines *)
(* against the relational store (tables users, discord_verify and          *)
(* users_invitation).  One action is one run of a handler between two      *)
(* suspension points that matter: a database statement (with the commit    *)
(* that follows it), the delivery of an inbound message, the HTTP call.    *)
(*                                                                         *)
(* Strings are sequences of one-character strings.  NULL is 0 for the      *)
(* integer columns.                                                        *)
(***************************************************************************)
EXTENDS Integers, Sequences, FiniteSets, TLC

VARIABLES users, discord_verify, users_invitation, clock, procs,
          initial_invite, issued_limited

vars == <<users, discord_verify, users_invitation, clock, procs,
          initial_invite, issued_limited>>

store == <<users, discord_verify, users_invitation>>

(***************************************************************************)
(* Bounds of the model.                                                    *)
(***************************************************************************)
\* number of handler invocations in one behaviour
NumProcs == 2
\* readings of the event-loop clock are 0..MaxTime
MaxTime == 1
\* initial remaining-invite counters are 0..MaxInvites
MaxInvites == 2

NULL == 0

Procs == 1 .. NumProcs
\* Discord user ids of the requesters
Requesters == {1, 2, 3}
\* primary keys of the rows of table users
AccountIds == {1, 2}

(***************************************************************************)
(* Strings.                                                                *)
(***************************************************************************)
UpperChars == <<"A", "B">>
LowerChars == <<"a", "b">>

\* str.lower() on one character
LowerChar(c) ==
    IF \E i \in DOMAIN UpperChars : UpperChars[i] = c
    THEN LowerChars[CHOOSE i \in DOMAIN UpperChars : UpperChars[i] = c]
    ELSE c

\* str.lower() / SQL lower()
Lower(s) == [i \in DOMAIN s |-> LowerChar(s[i])]

HexChars == <<"0", "1", "2", "3", "4", "5", "6", "7",
              "8", "9", "a", "b", "c", "d", "e", "f">>

\* hashlib.md5(str(t).encode()).hexdigest()[:16]: a hex string that is a
\* function of the clock reading alone (two digits stand for the sixteen).
Md5Hex16(t) == << HexChars[((5 * t + 3) % 16) + 1], HexChars[((3 * t + 7) % 16) + 1] >>

(***************************************************************************)
(* The store.  users: one row per account id (this program inserts and     *)
(* deletes none).  discord_verify and users_invitation: sets of rows.  The *)
(* time columns are never written by this program and are left out.        *)
(***************************************************************************)
AccountNames == << <<"A", "b">>, <<"B", "a">> >>

UsersRow(a, link, cnt) ==
    [name |-> AccountNames[a], safe_name |-> Lower(AccountNames[a]),
     available_invite |-> cnt, discord_id |-> link]

\* account 1 is linked to requester 1; account 2 to requester 2 or to nobody;
\* requester 3 has no account
InitialLinks == { <<1, 2>>, <<1, NULL>> }

\* an invitation issued in an earlier run of the bot (the row InviteInsert
\* writes, at an earlier clock reading), since redeemed or not
EarlierInvite(owner, t, redeemer) ==
    [user_id |-> owner, invite_code |-> Md5Hex16(t), used_by |-> redeemer]

UnusedInvite == EarlierInvite(2, -1, NULL)
UsedInvite == EarlierInvite(1, -2, 2)

InitialInvitations == { {}, {UnusedInvite}, {UsedInvite, UnusedInvite} }

\* ---- a handler invocation (a coroutine of the event loop) ---------------
NoProc ==
    [cmd |-> "none", user |-> NULL, pc |-> "idle", roles |-> <<>>, special |-> FALSE,
     db_user |-> NULL, avail |-> 0, code |-> <<>>, username |-> <<>>,
     left |-> 0, status |-> 0, body |-> "", out |-> <<>>, rejected |-> FALSE,
     \* history, read by the properties only
     had_row |-> FALSE, succeeded_before |-> {}, consumed |-> 0, foreign |-> FALSE,
     facts |-> {}, api_calls |-> 0]

Send(p, msg) == Append(procs[p].out, msg)
Sent(p, msg) == \E i \in DOMAIN procs[p].out : procs[p].out[i] = msg
Finished(p) == procs[p].pc \in {"done", "raised"}

\* Query.scalar_one_or_none(): None, the row, or MultipleResultsFound
Multiple(S) == Cardinality(S) > 1
OneOrNone(S) == IF S = {} THEN NULL ELSE CHOOSE x \in S : TRUE

\* select(Users).filter(Users.discord_id == user.id)
UsersByDiscordId(u) == {a \in AccountIds : users[a].discord_id = u}

\* the state when the bot starts: the store as the game server left it, no
\* handler running
InitWith(links, counters, invitations) ==
    /\ \E link \in links, cnt \in counters :
          users = [a \in AccountIds |-> UsersRow(a, link[a], cnt[a])]
    /\ discord_verify = {}
    /\ users_invitation \in invitations
    /\ clock = 0
    /\ procs = [p \in Procs |-> NoProc]
    /\ initial_invite = [a \in AccountIds |-> users[a].available_invite]
    /\ issued_limited = [a \in AccountIds |-> 0]

Init == InitWith(InitialLinks, [AccountIds -> 0 .. MaxInvites], InitialInvitations)

\* the handler slots are taken in order
CanStart(p) ==
    /\ procs[p].cmd = "none"
    /\ \A q \in Procs : q < p => procs[q].cmd # "none"

\* asyncio.get_event_loop().time() is monotonic; it may or may not have
\* advanced between two readings
Tick ==
    /\ clock < MaxTime
    /\ clock' = clock + 1
    /\ UNCHANGED <<store, procs, initial_invite, issued_limited>>

(***************************************************************************)
(* verify                                                                  *)
(***************************************************************************)
StartVerify(p, u) ==
    /\ CanStart(p)
    /\ procs' = [procs EXCEPT ![p] = [NoProc EXCEPT !.cmd = "verify", !.user = u,
                                                    !.pc = "v_select"]]
    /\ UNCHANGED <<store, clock, initial_invite, issued_limited>>

\* "Check if user is already verified"
VerifySelect(p) ==
    /\ procs[p].pc = "v_select"
    /\ LET found == UsersByDiscordId(procs[p].user) IN
       procs' = [procs EXCEPT ![p] =
          IF Multiple(found) THEN [@ EXCEPT !.pc = "raised"]
          ELSE IF found # {}
          THEN [@ EXCEPT !.pc = "done", !.db_user = OneOrNone(found),
                         !.out = Send(p, "AlreadyVerified")]
          ELSE [@ EXCEPT !.pc = "v_insert",
                         !.had_row = \E r \in discord_verify :
                                         r.discord_id = procs[p].user]]
    /\ UNCHANGED <<store, clock, initial_invite, issued_limited>>

\* discord_verify.discord_id is the primary key: a second row for the same
\* requester makes the commit raise IntegrityError
VerifyConflict_NoKey(table, id) == FALSE

VerifyConflict(table, id) == \E r \in table : r.discord_id = id

\* conn.add(DiscordVerify(...)); commit; on IntegrityError: rollback and the
\* "already have a verify code" message
VerifyInsert_Upsert(p) ==
    /\ procs[p].pc = "v_insert"
    /\ LET row == [discord_id |-> procs[p].user, verify_key |-> Md5Hex16(clock)] IN
       /\ discord_verify' = {r \in discord_verify : r.discord_id # row.discord_id} \cup {row}
       /\ procs' = [procs EXCEPT ![p].pc = "v_fetch"]
    /\ UNCHANGED <<users, users_invitation, clock, initial_invite, issued_limited>>

VerifyInsert(p) ==
    /\ procs[p].pc = "v_insert"
    /\ LET row == [discord_id |-> procs[p].user, verify_key |-> Md5Hex16(clock)] IN
       IF VerifyConflict(discord_verify, row.discord_id)
       THEN /\ discord_verify' = discord_verify
            /\ procs' = [procs EXCEPT ![p].pc = "v_fetch",
                                      ![p].out = Send(p, "CodeAlreadyPending")]
       ELSE /\ discord_verify' = discord_verify \cup {row}
            /\ procs' = [procs EXCEPT ![p].pc = "v_fetch"]
    /\ UNCHANGED <<users, users_invitation, clock, initial_invite, issued_limited>>

\* select(DiscordVerify) ... scalar_one_or_none().verify_key, sent to the user
VerifyFetch(p) ==
    /\ procs[p].pc = "v_fetch"
    /\ LET found == {r \in discord_verify : r.discord_id = procs[p].user} IN
       procs' = [procs EXCEPT ![p] =
          IF Cardinality(found) # 1 THEN [@ EXCEPT !.pc = "raised"]
          ELSE [@ EXCEPT !.pc = "done", !.code = (CHOOSE r \in found : TRUE).verify_key,
                         !.out = Send(p, "VerifyCode")]]
    /\ UNCHANGED <<store, clock, initial_invite, issued_limited>>

NextVerify ==
    \/ \E p \in Procs, u \in Requesters : StartVerify(p, u)
    \/ \E p \in Procs : VerifySelect(p)
    \/ \E p \in Procs : VerifyInsert(p)
    \/ \E p \in Procs : VerifyFetch(p)

\* verify reads neither the counters nor the invitations
InitVerify == InitWith(InitialLinks, {[a \in AccountIds |-> 1]}, {{}})

SpecVerify == InitVerify /\ [][Tick \/ NextVerify]_vars

(***************************************************************************)
(* invite                                                                  *)
(***************************************************************************)
\* config.donor_role, config.moderator_role
DonorRole == 1
ModeratorRole == 2

\* user.roles: a list of roles, each with an id and is_premium_subscriber()
Role(id, premium) == [id |-> id, premium |-> premium]
RoleLists ==
    { <<>>,
      << Role(3, FALSE) >>,
      << Role(3, FALSE), Role(DonorRole, FALSE) >>,
      << Role(ModeratorRole, FALSE), Role(3, FALSE) >>,
      << Role(3, FALSE), Role(4, TRUE) >>,
      << Role(4, TRUE) >>,
      << Role(3, FALSE), Role(5, FALSE) >>,
      << Role(3, FALSE), Role(5, FALSE), Role(ModeratorRole, FALSE) >> }

\* the lists the issuance specifications draw from: the rest of the handler
\* reads SPECIAL_PERM only
InviteRoleLists ==
    { << Role(3, FALSE) >>,
      << Role(3, FALSE), Role(DonorRole, FALSE) >> }

\* a loop that looked at the first role only
SpecialPerm_FirstOnly(roles) ==
    /\ roles # <<>>
    /\ Head(roles).id \in {DonorRole, ModeratorRole} \/ Head(roles).premium

\* the loop over user.roles that sets SPECIAL_PERM
RECURSIVE SpecialPerm(_)
SpecialPerm(roles) ==
    IF roles = <<>> THEN FALSE
    ELSE IF Head(roles).id \in {DonorRole, ModeratorRole} THEN TRUE
    ELSE IF Head(roles).premium THEN TRUE
    ELSE SpecialPerm(Tail(roles))

StartInvite(p, u, roles) ==
    /\ CanStart(p)
    /\ procs' = [procs EXCEPT ![p] = [NoProc EXCEPT !.cmd = "invite", !.user = u,
                                                    !.roles = roles,
                                                    !.special = SpecialPerm(roles),
                                                    !.pc = "i_select"]]
    /\ UNCHANGED <<store, clock, initial_invite, issued_limited>>

\* db_user.available_invite <= 0 and not SPECIAL_PERM
OutOfInvites_Strict(avail, special) == avail < 0 /\ ~special

OutOfInvites(avail, special) == avail <= 0 /\ ~special

\* the lookup of the requester's account and the two early returns; the
\* list of roles is not read after the loop and is dropped here
InviteSelect(p) ==
    /\ procs[p].pc = "i_select"
    /\ LET found == UsersByDiscordId(procs[p].user)
           a == OneOrNone(found)
       IN procs' = [procs EXCEPT ![p] =
          IF Multiple(found) THEN [@ EXCEPT !.pc = "raised", !.roles = <<>>]
          ELSE IF a = NULL
          THEN [@ EXCEPT !.pc = "done", !.roles = <<>>, !.out = Send(p, "NotVerified")]
          ELSE IF OutOfInvites(users[a].available_invite, procs[p].special)
          THEN [@ EXCEPT !.pc = "done", !.roles = <<>>, !.db_user = a,
                         !.avail = users[a].available_invite,
                         !.out = Send(p, "NoInvitesLeft")]
          ELSE [@ EXCEPT !.pc = "i_insert", !.roles = <<>>, !.db_user = a,
                         !.avail = users[a].available_invite]]
    /\ UNCHANGED <<store, clock, initial_invite, issued_limited>>

\* users_invitation.user_id is the primary key, and no other column is
\* declared unique: a second row of the same account makes the commit raise
\* IntegrityError, which invite does not catch
InviteConflict_NoKey(table, row) == FALSE

InviteConflict(table, row) == \E r \in table : r.user_id = row.user_id

\* conn.add(DiscordInvite(user_id=..., invite_code=...)); commit
InviteInsert(p) ==
    /\ procs[p].pc = "i_insert"
    /\ LET row == [user_id |-> procs[p].db_user, invite_code |-> Md5Hex16(clock),
                   used_by |-> NULL]
       IN IF InviteConflict(users_invitation, row)
          THEN /\ procs' = [procs EXCEPT ![p].pc = "raised"]
               /\ UNCHANGED <<users_invitation, issued_limited>>
          ELSE /\ users_invitation' = users_invitation \cup {row}
               /\ procs' = [procs EXCEPT ![p].pc = "i_fetch"]
               /\ issued_limited' =
                     [issued_limited EXCEPT ![row.user_id] =
                         IF procs[p].special THEN @ ELSE @ + 1]
    /\ UNCHANGED <<users, discord_verify, clock, initial_invite>>

\* "if not SPECIAL_PERM": only then is the counter updated
NeedsDecrement_Always(special) == TRUE

NeedsDecrement(special) == ~special

\* select(DiscordInvite) of the account, order_by(desc(time)), first(): the
\* time column is not written, so any row of the account may come first.
\* With unlimited privilege the replies follow at once.
InviteFetch(p) ==
    /\ procs[p].pc = "i_fetch"
    /\ LET found == {r \in users_invitation : r.user_id = procs[p].db_user} IN
       IF found = {}
       THEN procs' = [procs EXCEPT ![p].pc = "raised"]
       ELSE \E r \in found :
              procs' = [procs EXCEPT ![p] =
                 IF NeedsDecrement(procs[p].special)
                 THEN [@ EXCEPT !.pc = "i_update", !.code = r.invite_code]
                 ELSE [@ EXCEPT !.pc = "done", !.code = r.invite_code,
                                !.out = Send(p, "InviteCode") \o <<"Unlimited">>]]
    /\ UNCHANGED <<store, clock, initial_invite, issued_limited>>

\* update(Users).where(Users.id == db_user.id).values(
\*     available_invite=Users.available_invite - 1); commit; then the replies,
\* the second one computed from the row as it was read by InviteSelect
InviteUpdate(p) ==
    /\ procs[p].pc = "i_update"
    /\ users' = [users EXCEPT ![procs[p].db_user].available_invite = @ - 1]
    /\ procs' = [procs EXCEPT ![p].pc = "done",
                              ![p].left = procs[p].avail - 1,
                              ![p].out = Send(p, "InviteCode") \o <<"InvitesLeft">>]
    /\ UNCHANGED <<discord_verify, users_invitation, clock, initial_invite,
                   issued_limited>>

NextInvite ==
    \/ \E p \in Procs, u \in Requesters, roles \in InviteRoleLists : StartInvite(p, u, roles)
    \/ \E p \in Procs : InviteSelect(p)
    \/ \E p \in Procs : InviteInsert(p)
    \/ \E p \in Procs : InviteFetch(p)
    \/ \E p \in Procs : InviteUpdate(p)

InitInvite == InitWith(InitialLinks, [AccountIds -> 0 .. MaxInvites], {{}, {UnusedInvite}})

SpecInvite == InitInvite /\ [][Tick \/ NextInvite]_vars

\* the role loop alone, over every list of roles, up to the account lookup
NextRoles ==
    \/ \E p \in Procs, u \in Requesters, roles \in RoleLists : StartInvite(p, u, roles)
    \/ \E p \in Procs : InviteSelect(p)

InitRoles == InitWith({<<1, 2>>}, {[a \in AccountIds |-> 1]}, {{}})

SpecRoles == InitRoles /\ [][NextRoles]_vars

(***************************************************************************)
(* Inbound messages and client.wait_for('message', check=...).  A handler  *)
(* suspended in wait_for is a listener; one dispatched message resumes     *)
(* every listener whose check accepts it.                                  *)
(***************************************************************************)
\* what a requester may type: the two earlier invite codes and three names
MessageContents ==
    { UsedInvite.invite_code, UnusedInvite.invite_code,
      <<"a", "b">>, <<"B", "b">>, <<"b", "b">> }

\* what a requester may type after rename's prompt: the name of account 2,
\* a case variant of the name of account 1, a name nobody has, and four
\* candidates outside the pattern (Discord strips surrounding white space
\* from the content of a message)
LongName == [i \in 1 .. 16 |-> "a"]
RenameContents ==
    { <<"B", "a">>, <<"a", "b">>, <<"B", "b">>,
      <<"a">>, <<"a", " ", "_">>, <<"a", "!">>, LongName }

WaitingPcs == {"r_wait_code", "r_wait_name", "r_wait_pw", "r_wait_email", "n_wait"}

\* the pattern of rename's check: ^[\w \[\]-]{2,15}$
NameMinLen == 2
NameMaxLen == 15
Digits == {"0", "1", "2", "3", "4", "5", "6", "7", "8", "9"}
Letters ==
    {UpperChars[i] : i \in DOMAIN UpperChars} \cup {LowerChars[i] : i \in DOMAIN LowerChars}
        \cup {"c", "d", "e", "f"}
\* \w
WordChar(c) == c \in Letters \cup Digits \cup {"_"}
NameChar(c) == WordChar(c) \/ c \in {" ", "[", "]", "-"}

\* pattern.match(username): $ also matches before one trailing newline
PatternMatch(username) ==
    LET n == Len(username)
        t == IF n > 0 /\ username[n] = "\n" THEN SubSeq(username, 1, n - 1) ELSE username
    IN /\ Len(t) >= NameMinLen
       /\ Len(t) <= NameMaxLen
       /\ \A i \in DOMAIN t : NameChar(t[i])

Contains(username, c) == \E i \in DOMAIN username : username[i] = c

\* a check made of the pattern alone
Check_PatternOnly(username) == PatternMatch(username)

\* check(username) of rename
Check(username) ==
    IF ~PatternMatch(username) THEN FALSE
    ELSE IF Contains(username, "_") /\ Contains(username, " ") THEN FALSE
    ELSE TRUE

\* check=lambda m: m.author == user
MessageMatches_Anyone(p, author, content) == TRUE

\* register: check=lambda m: m.author == user;
\* rename: check=lambda m: m.author == user and check(m.content)
MessageMatches(p, author, content) ==
    /\ procs[p].user = author
    /\ procs[p].pc = "n_wait" => Check(content)

\* the handler resumes with the message and runs to its next suspension
Deliver(p, author, content) ==
    LET pr == [procs[p] EXCEPT !.consumed = @ + 1,
                               !.foreign = @ \/ author # procs[p].user]
    IN CASE pr.pc = "r_wait_code" -> [pr EXCEPT !.pc = "r_check_code", !.code = content]
         [] pr.pc = "r_wait_name" -> [pr EXCEPT !.pc = "r_check_name", !.username = content]
         [] pr.pc = "r_wait_pw" -> [pr EXCEPT !.pc = "r_wait_email",
                                              !.out = Append(@, "PromptEmail")]
         [] pr.pc = "r_wait_email" -> [pr EXCEPT !.pc = "r_submit"]
         [] pr.pc = "n_wait" -> [pr EXCEPT !.pc = "n_check", !.username = content]

\* a listener whose check refuses a message of its own requester keeps waiting
Refuses(p, author, content) ==
    /\ procs[p].pc \in WaitingPcs
    /\ procs[p].user = author
    /\ ~MessageMatches(p, author, content)

\* one message is dispatched to every listener
Message(author, content) ==
    /\ \E p \in Procs :
          \/ procs[p].pc \in WaitingPcs /\ MessageMatches(p, author, content)
          \/ Refuses(p, author, content)
    /\ procs' = [p \in Procs |->
                    IF procs[p].pc \in WaitingPcs /\ MessageMatches(p, author, content)
                    THEN Deliver(p, author, content)
                    ELSE IF Refuses(p, author, content)
                    THEN [procs[p] EXCEPT !.rejected = TRUE]
                    ELSE procs[p]]
    /\ UNCHANGED <<store, clock, initial_invite, issued_limited>>

(***************************************************************************)
(* register.  The password and the email are passed on to the API as       *)
(* typed; the handler decides nothing on them and they are not kept.       *)
(***************************************************************************)
IsRegister(p) == procs[p].cmd = "register"

StartRegister(p, u) ==
    /\ CanStart(p)
    /\ procs' = [procs EXCEPT ![p] =
          [NoProc EXCEPT !.cmd = "register", !.user = u, !.pc = "r_wait_code",
                         !.out = <<"PromptInviteCode">>,
                         !.succeeded_before = {q \in Procs : Sent(q, "Succeeded")}]]
    /\ UNCHANGED <<store, clock, initial_invite, issued_limited>>

\* db_invite.used_by is not None
InviteRedeemed_Never(row) == FALSE

InviteRedeemed(row) == row.used_by # NULL

\* select(DiscordInvite).filter(invite_code == content).scalar_one_or_none()
\* and the two early returns
RegisterCheckCode(p) ==
    /\ procs[p].pc = "r_check_code"
    /\ LET found == {r \in users_invitation : r.invite_code = procs[p].code}
           hist == [procs[p] EXCEPT
                      !.facts = IF \E r \in found : r.used_by = NULL
                                THEN @ \cup {"invite_unused"} ELSE @]
       IN procs' = [procs EXCEPT ![p] =
          IF Multiple(found) THEN [hist EXCEPT !.pc = "raised"]
          ELSE IF found = {}
          THEN [hist EXCEPT !.pc = "done", !.out = Send(p, "InvalidInviteCode")]
          ELSE IF InviteRedeemed(OneOrNone(found))
          THEN [hist EXCEPT !.pc = "done", !.out = Send(p, "InviteAlreadyUsed")]
          ELSE [hist EXCEPT !.pc = "r_wait_name", !.out = Send(p, "PromptUsername")]]
    /\ UNCHANGED <<store, clock, initial_invite, issued_limited>>

\* select(Users).filter(func.lower(Users.name) == username.content.lower())
UsersByLowerName(name) == {a \in AccountIds : Lower(users[a].name) = Lower(name)}

\* the two lookups of the second session block, which read one snapshot of
\* table users, and their early returns
RegisterCheckName(p) ==
    /\ procs[p].pc = "r_check_name"
    /\ LET linked == UsersByDiscordId(procs[p].user)
           taken == UsersByLowerName(procs[p].username)
           hist == [procs[p] EXCEPT
                      !.facts = @ \cup (IF linked = {} THEN {"unlinked"} ELSE {})
                                  \cup (IF taken = {} THEN {"name_free"} ELSE {})]
       IN procs' = [procs EXCEPT ![p] =
          IF Multiple(linked) THEN [hist EXCEPT !.pc = "raised"]
          ELSE IF linked # {}
          THEN [hist EXCEPT !.pc = "done", !.out = Send(p, "AlreadyRegistered")]
          ELSE IF Multiple(taken) THEN [hist EXCEPT !.pc = "raised"]
          ELSE IF taken # {}
          THEN [hist EXCEPT !.pc = "done", !.out = Send(p, "NameTaken")]
          ELSE [hist EXCEPT !.pc = "r_wait_pw", !.out = Send(p, "PromptPassword")]]
    /\ UNCHANGED <<store, clock, initial_invite, issued_limited>>

\* the answers of POST {api_url}/users: a status and a body
ApiStatuses == {200, 500}
ApiBodies == {"ok", "username taken"}

\* r.status_code != 200, then r.text != 'ok'
SubmitOutcome_BodyFirst(status, body) ==
    IF body # "ok" THEN "SubmissionRejected"
    ELSE IF status # 200 THEN "SubmissionFailed"
    ELSE "Succeeded"

SubmitOutcome(status, body) ==
    IF status # 200 THEN "SubmissionFailed"
    ELSE IF body # "ok" THEN "SubmissionRejected"
    ELSE "Succeeded"

\* what the requester is sent: r.text itself when the API rejects
SubmitReply(status, body) ==
    IF SubmitOutcome(status, body) = "SubmissionRejected" THEN body
    ELSE SubmitOutcome(status, body)

\* a handler that marked the invitation redeemed on success (main.py does not)
RegisterSubmit_MarksRedeemer(p) ==
    /\ procs[p].pc = "r_submit"
    /\ \E status \in ApiStatuses, body \in ApiBodies :
          /\ procs' = [procs EXCEPT ![p].pc = "done", ![p].api_calls = @ + 1,
                                    ![p].status = status, ![p].body = body,
                                    ![p].out = Send(p, SubmitReply(status, body))]
          /\ users_invitation' =
                IF SubmitOutcome(status, body) = "Succeeded"
                THEN {IF r.invite_code = procs[p].code THEN [r EXCEPT !.used_by = 1] ELSE r :
                          r \in users_invitation}
                ELSE users_invitation
    /\ UNCHANGED <<users, discord_verify, clock, initial_invite, issued_limited>>

\* r = requests.post(...) and the reply that follows; the API is a remote
\* service whose answer this program does not decide
RegisterSubmit(p) ==
    /\ procs[p].pc = "r_submit"
    /\ \E status \in ApiStatuses, body \in ApiBodies :
          procs' = [procs EXCEPT ![p].pc = "done", ![p].api_calls = @ + 1,
                                 ![p].status = status, ![p].body = body,
                                 ![p].out = Send(p, SubmitReply(status, body))]
    /\ UNCHANGED <<store, clock, initial_invite, issued_limited>>

NextRegister ==
    \/ \E p \in Procs, u \in Requesters : StartRegister(p, u)
    \/ \E u \in Requesters, content \in MessageContents : Message(u, content)
    \/ \E p \in Procs : RegisterCheckCode(p)
    \/ \E p \in Procs : RegisterCheckName(p)
    \/ \E p \in Procs : RegisterSubmit(p)

\* register reads no counter; both earlier invitations are in the store
InitRegister ==
    InitWith({<<1, NULL>>}, {[a \in AccountIds |-> 1]}, {{UsedInvite, UnusedInvite}})

SpecRegister == InitRegister /\ [][NextRegister]_vars

(***************************************************************************)
(* rename.  The handler keeps one database session open from its first     *)
(* lookup to its commit.  The lookups are modelled as reading the table as  *)
(* it is when they run; a server that serves them from the snapshot of the  *)
(* first lookup only widens the window between RenameCheck and RenameUpdate.*)
(***************************************************************************)
IsRename(p) == procs[p].cmd = "rename"

StartRename(p, u) ==
    /\ CanStart(p)
    /\ procs' = [procs EXCEPT ![p] =
          [NoProc EXCEPT !.cmd = "rename", !.user = u, !.pc = "n_select"]]
    /\ UNCHANGED <<store, clock, initial_invite, issued_limited>>

\* select(Users).filter(Users.discord_id == user.id).scalar_one_or_none(),
\* the early return, the prompt and the registration of the listener
RenameSelect(p) ==
    /\ procs[p].pc = "n_select"
    /\ LET found == UsersByDiscordId(procs[p].user)
           a == OneOrNone(found)
       IN procs' = [procs EXCEPT ![p] =
          IF Multiple(found) THEN [@ EXCEPT !.pc = "raised"]
          ELSE IF a = NULL
          THEN [@ EXCEPT !.pc = "done", !.out = Send(p, "RenameNotVerified")]
          ELSE [@ EXCEPT !.pc = "n_wait", !.db_user = a,
                         !.avail = users[a].available_invite,
                         !.out = Send(p, "PromptNewUsername")]]
    /\ UNCHANGED <<store, clock, initial_invite, issued_limited>>

\* select(Users).filter(Users.name == new_username)
UsersByName(name) == {a \in AccountIds : users[a].name = name}

\* the collision lookup and its early return
RenameCheck(p) ==
    /\ procs[p].pc = "n_check"
    /\ LET found == UsersByName(procs[p].username)
       IN procs' = [procs EXCEPT ![p] =
          IF Multiple(found) THEN [@ EXCEPT !.pc = "raised"]
          ELSE IF found # {}
          THEN [@ EXCEPT !.pc = "done", !.out = Send(p, "UsernameTaken")]
          ELSE [@ EXCEPT !.pc = "n_update"]]
    /\ UNCHANGED <<store, clock, initial_invite, issued_limited>>

\* an update that wrote back the whole row as the handler had read it
RenameUpdate_WholeRow(p) ==
    /\ procs[p].pc = "n_update"
    /\ users' = [users EXCEPT ![procs[p].db_user].name = procs[p].username,
                              ![procs[p].db_user].available_invite = procs[p].avail]
    /\ procs' = [procs EXCEPT ![p].pc = "done", ![p].out = Send(p, "Renamed")]
    /\ UNCHANGED <<discord_verify, users_invitation, clock, initial_invite,
                   issued_limited>>

\* update(Users).where(Users.id == db_user.id).values(name=new_username);
\* commit; the reply
RenameUpdate(p) ==
    /\ procs[p].pc = "n_update"
    /\ users' = [users EXCEPT ![procs[p].db_user].name = procs[p].username]
    /\ procs' = [procs EXCEPT ![p].pc = "done", ![p].out = Send(p, "Renamed")]
    /\ UNCHANGED <<discord_verify, users_invitation, clock, initial_invite,
                   issued_limited>>

RenameSteps ==
    \/ \E p \in Procs, u \in Requesters : StartRename(p, u)
    \/ \E p \in Procs : RenameSelect(p)
    \/ \E p \in Procs : RenameCheck(p)
    \/ \E p \in Procs : RenameUpdate(p)

NextRename ==
    \/ RenameSteps
    \/ \E u \in Requesters, content \in RenameContents : Message(u, content)

\* both accounts linked, requester 3 without account
InitRename == InitWith({<<1, 2>>}, {[a \in AccountIds |-> 1]}, {{}})

SpecRename == InitRename /\ [][NextRename]_vars

(***************************************************************************)
(* invite and rename on one store.                                         *)
(***************************************************************************)
NextAccount == NextInvite \/ NextRename

InitAccount ==
    InitWith({<<1, NULL>>}, {cnt \in [AccountIds -> 0 .. MaxInvites] : cnt[2] = 0}, {{}})

SpecAccount == InitAccount /\ [][NextAccount]_vars

(***************************************************************************)
(* The specifications of the two issuance commands together, and of the    *)
(* whole bot.                                                              *)
(***************************************************************************)
NextIssue == Tick \/ NextVerify \/ NextInvite

\* both accounts linked, requester 3 without account; account 2 out of invites
InitIssue ==
    InitWith({<<1, 2>>}, {cnt \in [AccountIds -> 0 .. MaxInvites] : cnt[2] = 0}, {{}})

SpecIssue == InitIssue /\ [][NextIssue]_vars

Next == Tick \/ NextVerify \/ NextInvite \/ NextRegister \/ RenameSteps

Spec == Init /\ [][Next]_vars

(***************************************************************************)
(* Properties of verification issuance (SpecVerify).                       *)
(***************************************************************************)
IsVerify(p) == procs[p].cmd = "verify"
IsInvite(p) == procs[p].cmd = "invite"

\* C1: in every reachable state there is at most one VerificationCode row
\* per requester identity, also when two verify calls of one requester have
\* both passed the "not linked" check.
C1_OneVerifyRowPerRequester ==
    \A r1 \in discord_verify, r2 \in discord_verify :
        r1.discord_id = r2.discord_id => r1 = r2

\* two calls of one requester both passed the check while no row existed,
\* and the second insert ran into the primary key
C1_Witness ==
    \E p \in Procs, q \in Procs :
        /\ p # q /\ IsVerify(p) /\ IsVerify(q)
        /\ procs[p].user = procs[q].user
        /\ ~procs[p].had_row /\ ~procs[q].had_row
        /\ procs[p].pc = "done" /\ ~Sent(p, "CodeAlreadyPending") /\ Sent(p, "VerifyCode")
        /\ Sent(q, "CodeAlreadyPending")
        /\ Cardinality(discord_verify) = 1

\* C2: a verify call never fails; every call of a requester without account
\* that completes returns the code stored in that requester's row, so all
\* such calls return the same code; the duplicate-key path reports the
\* pending code and then returns it too.
C2_VerifyIdempotent ==
    \A p \in Procs : IsVerify(p) =>
        /\ procs[p].pc # "raised"
        /\ (procs[p].pc = "done" /\ ~Sent(p, "AlreadyVerified")) => Sent(p, "VerifyCode")
        /\ Sent(p, "VerifyCode") =>
              /\ \E r \in discord_verify :
                    r.discord_id = procs[p].user /\ r.verify_key = procs[p].code
              /\ \A q \in Procs :
                    (IsVerify(q) /\ procs[q].user = procs[p].user /\ Sent(q, "VerifyCode"))
                        => procs[q].code = procs[p].code

\* a first call and a repeat, issued at different clock readings, have both
\* returned; the repeat went through the duplicate-key path
C2_Witness ==
    \E p \in Procs, q \in Procs :
        /\ IsVerify(p) /\ IsVerify(q) /\ procs[p].user = procs[q].user
        /\ procs[p].pc = "done" /\ procs[q].pc = "done"
        /\ Sent(p, "VerifyCode") /\ ~Sent(p, "CodeAlreadyPending")
        /\ procs[q].out = <<"CodeAlreadyPending", "VerifyCode">>
        /\ procs[q].code = procs[p].code
        /\ procs[p].code # Md5Hex16(clock)

(***************************************************************************)
(* Properties of invitation issuance (SpecInvite).                         *)
(***************************************************************************)
\* invite calls that have inserted their row and not yet updated the counter
Undecremented(a) ==
    {p \in Procs : /\ IsInvite(p) /\ procs[p].db_user = a /\ ~procs[p].special
                   /\ procs[p].pc \in {"i_fetch", "i_update"}}

\* C3: for each account, the initial counter minus the current counter is
\* the number of rows the account issued without unlimited privilege (less
\* the issuances whose decrement is still to come); an issuance with
\* unlimited privilege leaves the counter alone.
C3_DecrementPerLimitedIssuance ==
    \A a \in AccountIds :
        initial_invite[a] - users[a].available_invite
            = issued_limited[a] - Cardinality(Undecremented(a))

\* one issuance without and one with unlimited privilege have completed
C3_Witness ==
    \E p \in Procs, q \in Procs :
        /\ IsInvite(p) /\ IsInvite(q)
        /\ procs[p].pc = "done" /\ Sent(p, "InvitesLeft")
        /\ users[procs[p].db_user].available_invite = initial_invite[procs[p].db_user] - 1
        /\ procs[q].pc = "done" /\ Sent(q, "Unlimited")
        /\ users[procs[q].db_user].available_invite = initial_invite[procs[q].db_user]

\* C4: no remaining-invite counter is ever negative.
C4_CounterNeverNegative ==
    \A a \in AccountIds : users[a].available_invite >= 0

\* two calls of one requester without unlimited privilege both read the last
\* invite (counter 1) before either one decremented it; one has issued
C4_Witness ==
    \E p \in Procs, q \in Procs :
        /\ p # q /\ IsInvite(p) /\ IsInvite(q)
        /\ procs[p].user = procs[q].user
        /\ ~procs[p].special /\ ~procs[q].special
        /\ procs[p].avail = 1 /\ procs[q].avail = 1
        /\ procs[p].pc = "done" /\ Sent(p, "InvitesLeft")
        /\ Finished(q)
        /\ users[procs[p].db_user].available_invite = 0

\* C8 (as claimed): every invite call that passed the NotVerified and
\* NoInvitesLeft checks completes with a row of its own, so that an account
\* owns as many rows issued in this run as it has had such calls.
PassedInviteChecks(p) ==
    /\ IsInvite(p) /\ Finished(p) /\ procs[p].db_user # NULL /\ ~Sent(p, "NoInvitesLeft")

C8_EveryIssuanceAddsRow ==
    \A p \in Procs : PassedInviteChecks(p) =>
        /\ procs[p].pc = "done" /\ Sent(p, "InviteCode")
        /\ Cardinality({r \in users_invitation : r.user_id = procs[p].db_user})
              >= Cardinality({q \in Procs : /\ PassedInviteChecks(q)
                                            /\ procs[q].db_user = procs[p].db_user})

\* C9 (as claimed): no two InvitationCode rows hold the same code value.
C9_InviteCodeUnique ==
    \A r1 \in users_invitation, r2 \in users_invitation :
        r1.invite_code = r2.invite_code => r1 = r2

(***************************************************************************)
(* Properties of the two issuance commands together (SpecIssue).           *)
(***************************************************************************)
IssuanceFailures == {"AlreadyVerified", "NotVerified", "NoInvitesLeft"}

\* handler p sends msg in this step
Sends(p, msg) ==
    /\ ~Sent(p, msg)
    /\ \E i \in DOMAIN procs'[p].out : procs'[p].out[i] = msg

\* what each handler found decides its failure, and the failure is its only
\* reply and its end
C5_FailureDecided ==
    \A p \in Procs :
        /\ (IsVerify(p) /\ procs[p].db_user # NULL)
              => (procs[p].pc = "done" /\ procs[p].out = <<"AlreadyVerified">>)
        /\ (IsInvite(p) /\ procs[p].pc # "i_select" /\ procs[p].db_user = NULL)
              => (procs[p].pc = "done" /\ procs[p].out = <<"NotVerified">>)
        /\ (IsInvite(p) /\ procs[p].db_user # NULL
                /\ procs[p].avail <= 0 /\ ~procs[p].special)
              => (procs[p].pc = "done" /\ procs[p].out = <<"NoInvitesLeft">>)

\* the step that reports a failure writes nothing
C5_FailureStep ==
    \A p \in Procs, msg \in IssuanceFailures :
        Sends(p, msg) => /\ UNCHANGED store
                         /\ procs[p].out = <<>>
                         /\ procs[p].pc \in {"v_select", "i_select"}

\* C5: a failing issuance writes nothing: verify by a linked requester ends
\* with AlreadyVerified, invite by a requester without account with
\* NotVerified, invite without unlimited privilege at a counter of 0 or less
\* with NoInvitesLeft; the failing handler creates no row and changes no
\* counter.
C5_FailingIssuanceWritesNothing == []C5_FailureDecided /\ [][C5_FailureStep]_vars

\* a verify and an invite have both failed and the store is as it was
C5_Witness ==
    \E p \in Procs, q \in Procs :
        /\ IsVerify(p) /\ procs[p].out = <<"AlreadyVerified">>
        /\ IsInvite(q) /\ procs[q].out = <<"NoInvitesLeft">> /\ procs[q].avail = 0
        /\ discord_verify = {}
        /\ \A a \in AccountIds : users[a].available_invite = initial_invite[a]
        /\ issued_limited = [a \in AccountIds |-> 0]

(***************************************************************************)
(* Properties of the registration session (SpecRegister).                  *)
(***************************************************************************)
\* C6 (as claimed): once a session has ended Succeeded, a session that
\* began later and was given the same invite code fails with
\* InviteAlreadyUsed at the check of the code.
C6_RedeemedInviteRefused ==
    \A p \in Procs, q \in Procs :
        (/\ IsRegister(p) /\ IsRegister(q)
         /\ Sent(q, "Succeeded") /\ q \in procs[p].succeeded_before
         /\ procs[p].code = procs[q].code
         /\ procs[p].pc \notin {"r_wait_code", "r_check_code"})
            => Sent(p, "InviteAlreadyUsed")

CaseVariants(n1, n2) == n1 # n2 /\ Lower(n1) = Lower(n2)

\* C7 (as claimed): of two sessions, of two requesters, that were pending
\* together and whose usernames differ only in letter case, at most one ends
\* Succeeded.
C7_AtMostOneCaseVariantSucceeds ==
    \A p \in Procs, q \in Procs :
        (/\ IsRegister(p) /\ IsRegister(q)
         /\ p < q /\ p \notin procs[q].succeeded_before
         /\ procs[p].user # procs[q].user
         /\ CaseVariants(procs[p].username, procs[q].username))
            => ~(Sent(p, "Succeeded") /\ Sent(q, "Succeeded"))

\* the states of a session, in order; 6 is the end (Succeeded or Failed)
StateNo(pc) ==
    CASE pc \in {"r_wait_code", "r_check_code"} -> 1    \* AwaitingInviteCode
      [] pc \in {"r_wait_name", "r_check_name"} -> 2    \* AwaitingUsername
      [] pc = "r_wait_pw" -> 3                          \* AwaitingPassword
      [] pc = "r_wait_email" -> 4                       \* AwaitingEmail
      [] pc = "r_submit" -> 5                           \* Submitting
      [] OTHER -> 6

\* a session enters state n having consumed n - 1 messages, all of its own
\* requester, and one more once it holds the message of state n
C10_Messages ==
    \A p \in Procs : IsRegister(p) =>
        /\ ~procs[p].foreign
        /\ procs[p].pc \in WaitingPcs \cup {"r_submit"}
              => procs[p].consumed = StateNo(procs[p].pc) - 1
        /\ procs[p].pc \in {"r_check_code", "r_check_name"}
              => procs[p].consumed = StateNo(procs[p].pc)
        /\ procs[p].api_calls <= 1
        /\ procs[p].api_calls = 1
              => /\ procs[p].facts = {"invite_unused", "unlinked", "name_free"}
                 /\ procs[p].consumed = 4

\* a step keeps the state, moves to the next one or ends the session; only
\* Submitting is left with Succeeded; the API call is made in Submitting
C10_Order ==
    \A p \in Procs : IsRegister(p) =>
        /\ \/ StateNo(procs'[p].pc) \in {StateNo(procs[p].pc), StateNo(procs[p].pc) + 1}
           \/ Finished(p)'
        /\ ~Finished(p) => procs'[p].cmd = "register"
        /\ Finished(p) => procs'[p] = procs[p]
        /\ Sends(p, "Succeeded") => procs[p].pc = "r_submit"
        /\ procs'[p].api_calls # procs[p].api_calls => procs[p].pc = "r_submit"
        /\ procs'[p].consumed \in {procs[p].consumed, procs[p].consumed + 1}

\* C10: a session goes through AwaitingInviteCode, AwaitingUsername,
\* AwaitingPassword, AwaitingEmail, Submitting in that order, one message of
\* its own requester per transition; the API is called at most once, and
\* only after the invite code was found unredeemed, the requester unlinked
\* and the name free of a case-insensitive collision.
C10_SessionOrder == []C10_Messages /\ [][C10_Order]_vars

\* a session has gone through all five states and called the API while a
\* session of another requester, pending all along, is still at its first
C10_Witness ==
    \E p \in Procs, q \in Procs :
        /\ IsRegister(p) /\ procs[p].pc = "done" /\ procs[p].api_calls = 1
        /\ procs[p].consumed = 4
        /\ procs[p].out = <<"PromptInviteCode", "PromptUsername", "PromptPassword",
                            "PromptEmail", "Succeeded">>
        /\ IsRegister(q) /\ procs[q].user # procs[p].user
        /\ q < p \/ p \notin procs[q].succeeded_before
        /\ procs[q].pc = "r_wait_code" /\ procs[q].consumed = 0

ValidationFailures ==
    {"InvalidInviteCode", "InviteAlreadyUsed", "AlreadyRegistered", "NameTaken"}

Last(seq) == seq[Len(seq)]

\* the rows of the code a session was given, once it has looked them up
CodeRows(p) == {r \in users_invitation : r.invite_code = procs[p].code}
PastCodeCheck(p) == IsRegister(p) /\ procs[p].pc \notin {"r_wait_code", "r_check_code"}
PastNameCheck(p) ==
    PastCodeCheck(p) /\ procs[p].username # <<>> /\ procs[p].pc # "r_check_name"

\* C11: a validation failure is terminal: an unknown or redeemed invite code
\* and a failed username step end the session at once, with no further
\* prompt, no further message consumed and no call of the API.  In every
\* state, what the lookups find decides the failure; a session that failed
\* has ended, the failure is the last thing it sent, it has sent one message
\* per message it consumed after the first prompt, and it has made no API call.
C11_ValidationFailureTerminal ==
    \A p \in Procs : IsRegister(p) =>
        /\ (PastCodeCheck(p) /\ CodeRows(p) = {})
              => procs[p].out = <<"PromptInviteCode", "InvalidInviteCode">>
        /\ (PastCodeCheck(p) /\ \E r \in CodeRows(p) : r.used_by # NULL)
              => procs[p].out = <<"PromptInviteCode", "InviteAlreadyUsed">>
        /\ (PastNameCheck(p) /\ UsersByDiscordId(procs[p].user) # {})
              => procs[p].out = <<"PromptInviteCode", "PromptUsername", "AlreadyRegistered">>
        /\ (PastNameCheck(p) /\ UsersByDiscordId(procs[p].user) = {}
                /\ UsersByLowerName(procs[p].username) # {})
              => procs[p].out = <<"PromptInviteCode", "PromptUsername", "NameTaken">>
        /\ (\E f \in ValidationFailures : Sent(p, f))
              => /\ procs[p].pc = "done"
                 /\ Last(procs[p].out) \in ValidationFailures
                 /\ procs[p].api_calls = 0
                 /\ procs[p].consumed = Len(procs[p].out) - 1
                 /\ Len(procs[p].out) \in {2, 3}

\* a session failed at the username step; a later session of the same
\* requester has since consumed four more messages of that requester
C11_Witness ==
    \E p \in Procs, q \in Procs :
        /\ IsRegister(p) /\ IsRegister(q) /\ procs[p].user = procs[q].user
        /\ p < q
        /\ procs[p].out = <<"PromptInviteCode", "PromptUsername", "NameTaken">>
        /\ procs[p].consumed = 2
        /\ procs[q].pc = "r_submit" /\ procs[q].consumed = 4

\* C12: the Submitting step maps the answer of the API to exactly one
\* outcome: a status other than 200 to SubmissionFailed whatever the body,
\* status 200 with another body than "ok" to that body sent verbatim, status
\* 200 with "ok" to Succeeded; the call is made once, and the session ends.
C12_SubmitOutcome ==
    \A p \in Procs : IsRegister(p) =>
        /\ procs[p].api_calls \in {0, 1}
        /\ procs[p].api_calls = 0 =>
              \A i \in DOMAIN procs[p].out :
                  procs[p].out[i] \notin {"SubmissionFailed", "Succeeded"} \cup ApiBodies
        /\ procs[p].api_calls = 1 =>
              /\ procs[p].pc = "done"
              /\ Len(procs[p].out) = 5
              /\ procs[p].status # 200 => Last(procs[p].out) = "SubmissionFailed"
              /\ (procs[p].status = 200 /\ procs[p].body # "ok")
                    => Last(procs[p].out) = procs[p].body
              /\ (procs[p].status = 200 /\ procs[p].body = "ok")
                    => Last(procs[p].out) = "Succeeded"

\* the API has answered 500 with body "ok" to one session and 200 with a
\* rejection to another
C12_Witness ==
    \E p \in Procs, q \in Procs :
        /\ IsRegister(p) /\ procs[p].status = 500 /\ procs[p].body = "ok"
        /\ Last(procs[p].out) = "SubmissionFailed"
        /\ IsRegister(q) /\ procs[q].status = 200 /\ procs[q].body = "username taken"
        /\ Last(procs[q].out) = "username taken"

\* C13: no step of a registration session inserts, updates or deletes a row
\* of users, discord_verify or users_invitation; the redeemer of the invite
\* code stays unset.
C13_RegisterWritesNothing == [][UNCHANGED store]_vars

\* one session has succeeded, another was left at the password prompt, and
\* the invite code both were given is still unredeemed
C13_Witness ==
    \E p \in Procs, q \in Procs :
        /\ IsRegister(p) /\ Last(procs[p].out) = "Succeeded"
        /\ IsRegister(q) /\ procs[q].pc = "r_wait_pw"
        /\ procs[p].code = UnusedInvite.invite_code
        /\ procs[q].code = UnusedInvite.invite_code
        /\ UnusedInvite \in users_invitation

\* C14: the count reported after a successful limited issuance is the
\* counter stored for the account right after that issuance's decrement,
\* whatever ran between the handler's read of the counter and the decrement;
\* an invite that reads a counter of 0 is answered NoInvitesLeft.
C14_Reported ==
    \A p \in Procs :
        /\ Sends(p, "InvitesLeft")
              => /\ procs'[p].left = users'[procs[p].db_user].available_invite
                 /\ users'[procs[p].db_user].available_invite
                        = users[procs[p].db_user].available_invite - 1
        /\ (IsInvite(p) /\ procs[p].pc = "i_select" /\ ~procs[p].special
               /\ \E a \in UsersByDiscordId(procs[p].user) : users[a].available_invite = 0)
              => procs'[p].pc \in {"i_select", "done", "raised"}
                 /\ (procs'[p].pc = "done" => procs'[p].out = <<"NoInvitesLeft">>)

HoldsUnlimitedRole(roles) ==
    \E i \in DOMAIN roles :
        \/ roles[i].id = DonorRole
        \/ roles[i].id = ModeratorRole
        \/ roles[i].premium

\* C15: the unlimited decision is true exactly when some role held has the
\* donor-role id or the moderator-role id or is a premium-subscriber role,
\* false for every other list of roles, the empty one included.
C15_Unlimited ==
    \A p \in Procs : (IsInvite(p) /\ procs[p].pc = "i_select") =>
        (procs[p].special <=> HoldsUnlimitedRole(procs[p].roles))

\* computing the decision writes nothing
C15_NoWrite ==
    \A p \in Procs :
        (procs[p].cmd = "none" /\ procs'[p].cmd = "invite") => UNCHANGED store

C15_UnlimitedDecision == []C15_Unlimited /\ [][C15_NoWrite]_vars

\* one requester was found unlimited by a role that is not the first of the
\* list, another holds no role and is limited
C15_Witness ==
    \E p \in Procs, q \in Procs :
        /\ IsInvite(p) /\ procs[p].pc = "i_select"
        /\ procs[p].special /\ Len(procs[p].roles) = 3
        /\ ~HoldsUnlimitedRole(SubSeq(procs[p].roles, 1, 2))
        /\ IsInvite(q) /\ procs[q].pc = "i_select"
        /\ ~procs[q].special /\ procs[q].roles = <<>>

\* the candidates the prompt of rename allows: 2 to 15 characters, each a
\* letter, a digit, a space, a bracket, a hyphen or an underscore, and not
\* both a space and an underscore
AllowedChars == Letters \cup Digits \cup {" ", "[", "]", "-", "_"}
ValidCandidate(name) ==
    /\ Len(name) \in 2 .. 15
    /\ \A i \in DOMAIN name : name[i] \in AllowedChars
    /\ ~(\E i \in DOMAIN name : name[i] = " " /\ \E j \in DOMAIN name : name[j] = "_")

\* the candidate of every rename that is past its wait is a valid one, and
\* every name in the store is the name the account had or a valid candidate
C16_OnlyValidLookedUp ==
    /\ \A p \in Procs :
          (IsRename(p) /\ procs[p].username # <<>>) => ValidCandidate(procs[p].username)
    /\ \A a \in AccountIds :
          users[a].name = AccountNames[a] \/ ValidCandidate(users[a].name)

\* the step in which a listener refuses a candidate leaves the handler
\* waiting, with no candidate, and the store as it was
C16_RefusalStep ==
    \A p \in Procs :
        (IsRename(p) /\ procs'[p].rejected /\ ~procs[p].rejected)
            => /\ procs'[p].pc = "n_wait" /\ procs[p].pc = "n_wait"
               /\ procs'[p].username = <<>>
               /\ procs'[p].consumed = procs[p].consumed
               /\ UNCHANGED store

\* C16: a rename candidate that fails the name pattern or holds both a space
\* and an underscore is refused before any storage access is made for it: no
\* collision lookup, no update, and no account's name changes because of it.
C16_InvalidCandidateRefused == []C16_OnlyValidLookedUp /\ [][C16_RefusalStep]_vars

\* a rename has refused a candidate and is still waiting, the name of its
\* account as it was; another refused one and later took a valid candidate
C16_Witness ==
    \E p \in Procs, q \in Procs :
        /\ IsRename(p) /\ procs[p].rejected /\ procs[p].pc = "n_wait"
        /\ users[procs[p].db_user].name = AccountNames[procs[p].db_user]
        /\ IsRename(q) /\ procs[q].rejected /\ Sent(q, "Renamed")

\* C17: every account's normalized name is the case-folded form of its
\* display name, and no two accounts have the same normalized name.
C17_NormalizedNames ==
    /\ \A a \in AccountIds : users[a].safe_name = Lower(users[a].name)
    /\ \A a \in AccountIds, b \in AccountIds :
          a # b => users[a].safe_name # users[b].safe_name

SuccessfulInvites(a) ==
    {p \in Procs : IsInvite(p) /\ procs[p].db_user = a /\ Sent(p, "InvitesLeft")}
SuccessfulRenames(a) ==
    {p \in Procs : IsRename(p) /\ procs[p].db_user = a /\ Sent(p, "Renamed")}

\* the counter is lower by the limited issuances that completed, the name is
\* the one of a completed rename if there is one
C18_BothKept ==
    \A a \in AccountIds :
        /\ users[a].available_invite
              = initial_invite[a] - Cardinality(SuccessfulInvites(a))
        /\ IF SuccessfulRenames(a) = {} THEN users[a].name = AccountNames[a]
           ELSE \E p \in SuccessfulRenames(a) : users[a].name = procs[p].username
        /\ \A p \in Procs :
              (IsInvite(p) /\ procs[p].db_user = a /\ procs[p].special
                  /\ Sent(p, "Unlimited"))
                 => users[a].available_invite = initial_invite[a]

\* a step that changes the counter changes nothing else of the row, and
\* lowers it by one; a step that changes the name changes nothing else
C18_OwnColumn ==
    \A a \in AccountIds :
        /\ users'[a].available_invite # users[a].available_invite
              => users'[a] = [users[a] EXCEPT !.available_invite = @ - 1]
        /\ users'[a].name # users[a].name
              => users'[a] = [users[a] EXCEPT !.name = users'[a].name]

\* C18: an invitation issuance racing a rename on the same account loses
\* neither update: once both have completed the name is the new name and the
\* counter is one lower (unchanged for an unlimited requester); each
\* operation changes only its own column of the row.
C18_NeitherUpdateLost == []C18_BothKept /\ [][C18_OwnColumn]_vars

\* the rename read the row before the invite lowered the counter, and both
\* have completed
C18_Witness ==
    \E p \in Procs, q \in Procs, a \in AccountIds :
        /\ p \in SuccessfulInvites(a) /\ q \in SuccessfulRenames(a)
        /\ procs[q].avail = procs[p].avail
        /\ users[a].name = procs[q].username
        /\ users[a].available_invite = initial_invite[a] - 1

\* C19: no two accounts have the same display name.
C19_DisplayNamesUnique ==
    \A a \in AccountIds, b \in AccountIds : a # b => users[a].name # users[b].name

\* C20: one message advances at most one of the sessions a requester has
\* pending.
C20_OneSessionPerMessage ==
    [][\A p \in Procs, q \in Procs :
          (p # q /\ procs[p].user = procs[q].user)
             => ~(procs'[p].consumed > procs[p].consumed
                    /\ procs'[q].consumed > procs[q].consumed)]_vars

====
